---- MODULE Spec2Model ----
(***************************************************************************)
(* State-machine model of src/spotify_weekly.py (MusicDiscoveryTool).      *)
(*                                                                         *)
(* Strings whose content the program inspects (names, release dates) are   *)
(* sequences of character codes, so that lower(), len(), strptime() and    *)
(* the lexicographic order used by list.sort() are computed, not assumed.  *)
(* A datetime is [ord |-> proleptic Gregorian ordinal, tod |-> time of day]*)
(* with tod = 0 for midnight.                                              *)
(***************************************************************************)
EXTENDS Integers, Sequences, FiniteSets, TLC

VARIABLES
    pc,               \* position of the control flow
    sp,               \* the session handle: the identity current_user() resolves
    user_id,          \* self.user_id
    days_lookback,    \* self.days_lookback
    max_tracks,       \* self.max_tracks
    followed_artists, \* run: followed_artists
    artist_ids,       \* get_similar_artists: artist_ids
    similar_artists,  \* get_similar_artists: similar_artists
    seen_ids,         \* get_similar_artists: seen_ids
    queried,          \* ids passed to sp.artist_related_artists, in call order
    artists,          \* get_recent_releases: artists
    cutoff_date,      \* get_recent_releases: cutoff_date
    recent_tracks,    \* get_recent_releases: recent_tracks
    scan_log,         \* the artist_albums outcome received for artists[k]
    failed,           \* indices k whose scan printed "Error checking releases"
    i,                \* enumerate index of the loop in progress (1-based)
    tracks,           \* the list get_recent_releases returned / create_playlist got
    calls,            \* playlist write calls issued to the remote API, in order
    bi,               \* create_playlist: offset i of range(0, len(track_uris), 100)
    playlist_id,      \* what create_playlist returned
    report            \* the closing message the run printed

vars == <<pc, sp, user_id, days_lookback, max_tracks, followed_artists,
          artist_ids, similar_artists, seen_ids, queried, artists, cutoff_date,
          recent_tracks, scan_log, failed, i, tracks, calls, bi, playlist_id,
          report>>

-----------------------------------------------------------------------------
(* Bounds of the model. *)

MaxAlbums == 2
MaxFollowedIds == 11
MaxPlaylistTracks == 201

-----------------------------------------------------------------------------
(* Python values. *)

None == "None"

Min(a, b) == IF a <= b THEN a ELSE b

Max(a, b) == IF a >= b THEN a ELSE b

Range(s) == {s[k] : k \in 1..Len(s)}

\* str.lower() on ASCII: 'A'..'Z' (65..90) map to 'a'..'z'.
LowerChar(c) == IF c \in 65..90 THEN c + 32 ELSE c

Lower(s) == [k \in 1..Len(s) |-> LowerChar(s[k])]

\* Python's str ordering: by code point, a proper prefix is smaller.
RECURSIVE StrLess(_, _)
StrLess(a, b) ==
    IF b = <<>> THEN FALSE
    ELSE IF a = <<>> THEN TRUE
    ELSE IF a[1] # b[1] THEN a[1] < b[1]
    ELSE StrLess(Tail(a), Tail(b))

\* seq[:n] for any integer n (a negative n counts from the end).
SlicePrefix(s, n) ==
    IF n >= 0 THEN SubSeq(s, 1, Min(n, Len(s)))
    ELSE SubSeq(s, 1, Max(Len(s) + n, 0))

-----------------------------------------------------------------------------
(* datetime: the calendar, strptime('%Y-%m-%d'), comparison, timedelta. *)

Dash == 45

Digit(n) == 48 + n

IsDigit(c) == c \in 48..57

DigitVal(c) == c - 48

IsLeap(y) == y % 4 = 0 /\ (y % 100 # 0 \/ y % 400 = 0)

DaysInMonth(y, m) ==
    IF m = 2 THEN (IF IsLeap(y) THEN 29 ELSE 28)
    ELSE IF m \in {4, 6, 9, 11} THEN 30 ELSE 31

RECURSIVE DaysBeforeMonth(_, _)
DaysBeforeMonth(y, m) ==
    IF m = 1 THEN 0 ELSE DaysBeforeMonth(y, m - 1) + DaysInMonth(y, m - 1)

DaysBeforeYear(y) ==
    (y - 1) * 365 + ((y - 1) \div 4) - ((y - 1) \div 100) + ((y - 1) \div 400)

Ymd2Ord(y, m, d) == DaysBeforeYear(y) + DaysBeforeMonth(y, m) + d

\* A run of 1 or 2 digits as strptime's %m / %d directive reads it:
\* 1[0-2]|0[1-9]|[1-9] for the month, 3[01]|[12]\d|0[1-9]|[1-9] for the day.
NumVal(t) == IF Len(t) = 1 THEN DigitVal(t[1]) ELSE 10 * DigitVal(t[1]) + DigitVal(t[2])

IsNum(t) == Len(t) \in {1, 2} /\ \A k \in 1..Len(t) : IsDigit(t[k])

NoDate == [ok |-> FALSE, ord |-> 0]

\* datetime.strptime(s, '%Y-%m-%d'): ok = FALSE stands for ValueError.
StrpTime(s) ==
    IF Len(s) < 8 \/ Len(s) > 10 THEN NoDate
    ELSE IF ~((\A k \in 1..4 : IsDigit(s[k])) /\ s[5] = Dash) THEN NoDate
    ELSE LET ml == IF s[7] = Dash THEN 1 ELSE 2
             mt == SubSeq(s, 6, 5 + ml)
             dt == SubSeq(s, 7 + ml, Len(s))
             y  == 1000 * DigitVal(s[1]) + 100 * DigitVal(s[2])
                   + 10 * DigitVal(s[3]) + DigitVal(s[4])
         IN IF ~(Len(s) >= 7 + ml /\ s[6 + ml] = Dash /\ IsNum(mt) /\ IsNum(dt))
            THEN NoDate
            ELSE IF ~(y >= 1 /\ NumVal(mt) \in 1..12
                      /\ NumVal(dt) \in 1..DaysInMonth(y, NumVal(mt)))
            THEN NoDate
            ELSE [ok |-> TRUE, ord |-> Ymd2Ord(y, NumVal(mt), NumVal(dt))]

\* The suffixes the fallback branches append.
Jan01 == <<Dash, Digit(0), Digit(1), Dash, Digit(0), Digit(1)>>

Day01 == <<Dash, Digit(0), Digit(1)>>

\* Lines 129-138: the value of release_date, or what the album's turn ends in:
\* "date" (parsed), "skip" (continue) or "raise" (a ValueError raised inside the
\* except block, which leaves the album loop for the artist-level handler).
ParseReleaseDate(s) ==
    LET full == StrpTime(s)
    IN IF full.ok THEN [kind |-> "date", ord |-> full.ord]
       ELSE IF Len(s) = 4
            THEN LET p == StrpTime(s \o Jan01)
                 IN IF p.ok THEN [kind |-> "date", ord |-> p.ord]
                    ELSE [kind |-> "raise", ord |-> 0]
       ELSE IF Len(s) = 7
            THEN LET p == StrpTime(s \o Day01)
                 IN IF p.ok THEN [kind |-> "date", ord |-> p.ord]
                    ELSE [kind |-> "raise", ord |-> 0]
       ELSE [kind |-> "skip", ord |-> 0]

\* datetime >= datetime
DtGE(a, b) == a.ord > b.ord \/ (a.ord = b.ord /\ a.tod >= b.tod)

\* A strict comparison in place of >= (mutation of IsRecent).
IsRecentStrict(ord, cutoff) == ~DtGE(cutoff, [ord |-> ord, tod |-> 0])

\* Line 140: release_date >= cutoff_date; strptime yields midnight.
IsRecent(ord, cutoff) == DtGE([ord |-> ord, tod |-> 0], cutoff)

\* Line 114: datetime.now() - timedelta(days=self.days_lookback)
CutoffDate(now, days) == [ord |-> now.ord - days, tod |-> now.tod]

-----------------------------------------------------------------------------
(* The remote catalog the calls read: artists, albums, tracks. *)

Digits4(y) == <<Digit(y \div 1000), Digit((y \div 100) % 10),
                Digit((y \div 10) % 10), Digit(y % 10)>>

Pad2(n) == <<Digit(n \div 10), Digit(n % 10)>>

\* release_date at day, month and year precision.
DayString(y, m, d) == Digits4(y) \o <<Dash>> \o Pad2(m) \o <<Dash>> \o Pad2(d)

MonthString(y, m) == Digits4(y) \o <<Dash>> \o Pad2(m)

YearString(y) == Digits4(y)

\* Strings outside the three precisions: "2024-1-1" (no zero padding),
\* "2024-" and "20x4".
UnpaddedString == Digits4(2024) \o <<Dash, Digit(1), Dash, Digit(1)>>

TruncatedString == Digits4(2024) \o <<Dash>>

GarbledYear == <<Digit(2), Digit(0), 120, Digit(4)>>

\* Names: "Ab", "aB", "Cd"; "So", "sO", "SO", "Tu", "Vw".
NameAb == <<65, 98>>
NameaB == <<97, 66>>
NameCd == <<67, 100>>
NameSo == <<83, 111>>
NamesO == <<115, 79>>
NameSO == <<83, 79>>
NameTu == <<84, 117>>
NameVw == <<86, 119>>

ArtistName(id) == IF id = 1 THEN NameAb ELSE IF id = 2 THEN NameaB ELSE NameCd

Artist(id) == [id |-> id, name |-> ArtistName(id)]

ArtistPool == {Artist(1), Artist(2), Artist(3)}

TrackItem(id, name) == [id |-> id, name |-> name, uri |-> id]

\* An album of an artist_albums page together with what album_tracks answers
\* for it: tracks.ok = FALSE stands for the call raising.
Album(id, date, items) ==
    [id |-> id, name |-> <<65, Digit(id \div 10), Digit(id % 10)>>,
     release_date |-> date, tracks |-> [ok |-> TRUE, items |-> items]]

FailingAlbum(id, date) ==
    [id |-> id, name |-> <<65, Digit(id \div 10), Digit(id % 10)>>,
     release_date |-> date, tracks |-> [ok |-> FALSE, items |-> <<>>]]

Catalog(id) ==
    IF id = 1 THEN
        {Album(11, DayString(2024, 1, 2), <<TrackItem(111, NameSo), TrackItem(112, NameTu)>>),
         Album(12, UnpaddedString, <<TrackItem(121, NamesO)>>),
         Album(13, TruncatedString, <<TrackItem(131, NameVw)>>)}
    ELSE IF id = 2 THEN
        {Album(21, YearString(2024), <<TrackItem(211, NameSO)>>),
         Album(22, DayString(2023, 12, 27), <<TrackItem(221, NameTu)>>),
         Album(23, MonthString(2023, 12), <<TrackItem(231, NameVw)>>)}
    ELSE IF id = 3 THEN
        {Album(31, MonthString(2024, 1), <<TrackItem(311, NameVw)>>),
         Album(32, GarbledYear, <<TrackItem(321, NameTu)>>),
         FailingAlbum(33, DayString(2024, 1, 1))}
    ELSE {}

IsInjective(s) == \A a, b \in 1..Len(s) : s[a] = s[b] => a = b

DistinctSeqs(S, n) ==
    {s \in UNION {[1..k -> S] : k \in 0..n} : IsInjective(s)}

\* What sp.artist_albums(artist['id'], limit=10, ...) may answer: it raises
\* (ok = FALSE), or returns a page of the artist's albums.
AlbumResponses(artist) ==
    {[ok |-> FALSE, items |-> <<>>]}
    \cup {[ok |-> TRUE, items |-> s] : s \in DistinctSeqs(Catalog(artist.id), Min(MaxAlbums, 10))}

\* datetime.now() when get_recent_releases starts: 2024-01-03, at midnight or later.
Nows == {[ord |-> Ymd2Ord(2024, 1, 3), tod |-> t] : t \in {0, 1}}

\* DAYS_LOOKBACK and MAX_TRACKS_PER_PLAYLIST as the environment may set them
\* (int() accepts any integer); 7 and 50 are the defaults.
LookbackValues == {7}

MaxTracksValues == {-1, 0, 1, 50}

-----------------------------------------------------------------------------
(* get_recent_releases *)

\* Lines 145-152.
TrackInfo(track, artist, album) ==
    [id |-> track.id, name |-> track.name, artist |-> artist.name,
     album |-> album.name, release_date |-> album.release_date, uri |-> track.uri]

AlbumTrackInfos(artist, album) ==
    [k \in 1..Len(album.tracks.items) |-> TrackInfo(album.tracks.items[k], artist, album)]

\* Lines 127-153: the album loop of one artist, from album k on, appending to
\* acc; raised = TRUE when an exception left the loop.
RECURSIVE ScanAlbums(_, _, _, _, _)
ScanAlbums(artist, items, k, cutoff, acc) ==
    IF k > Len(items) THEN [tracks |-> acc, raised |-> FALSE]
    ELSE LET album == items[k]
             rd == ParseReleaseDate(album.release_date)
         IN IF rd.kind = "skip" THEN ScanAlbums(artist, items, k + 1, cutoff, acc)
            ELSE IF rd.kind = "raise" THEN [tracks |-> acc, raised |-> TRUE]
            ELSE IF ~IsRecent(rd.ord, cutoff)
                 THEN ScanAlbums(artist, items, k + 1, cutoff, acc)
            ELSE IF ~album.tracks.ok THEN [tracks |-> acc, raised |-> TRUE]
            ELSE ScanAlbums(artist, items, k + 1, cutoff,
                            acc \o AlbumTrackInfos(artist, album))

\* break in place of continue (mutation of AfterArtistError).
AfterArtistErrorBreak(acc, idx, n) == [tracks |-> acc, next |-> n + 1]

\* Lines 159-161: the artist-level handler prints and continues with the next
\* artist; what was appended before the exception stays.
AfterArtistError(acc, idx, n) == [tracks |-> acc, next |-> idx + 1]

\* Lines 117-161: one turn of the artist loop, given what artist_albums answers.
ScanArtist(resp) ==
    /\ pc = "scan"
    /\ i <= Len(artists)
    /\ LET res == IF resp.ok
                  THEN ScanAlbums(artists[i], resp.items, 1, cutoff_date, recent_tracks)
                  ELSE [tracks |-> recent_tracks, raised |-> TRUE]
           err == AfterArtistError(res.tracks, i, Len(artists))
       IN IF res.raised
          THEN /\ recent_tracks' = err.tracks
               /\ i' = err.next
               /\ failed' = failed \cup {i}
          ELSE /\ recent_tracks' = res.tracks
               /\ i' = i + 1
               /\ failed' = failed
    /\ scan_log' = Append(scan_log, resp)
    /\ UNCHANGED <<pc, sp, user_id, days_lookback, max_tracks, followed_artists,
                   artist_ids, similar_artists, seen_ids, queried, artists,
                   cutoff_date, tracks, calls, bi, playlist_id, report>>

\* The key without .lower() (mutation of TrackKey).
TrackKeyCaseSensitive(track) == <<track.name, track.artist>>

\* Line 168.
TrackKey(track) == <<Lower(track.name), Lower(track.artist)>>

\* Lines 164-171: keep the first track of every key.
RECURSIVE UniqueFrom(_, _, _)
UniqueFrom(s, k, seen) ==
    IF k > Len(s) THEN <<>>
    ELSE IF TrackKey(s[k]) \in seen THEN UniqueFrom(s, k + 1, seen)
    ELSE <<s[k]>> \o UniqueFrom(s, k + 1, seen \cup {TrackKey(s[k])})

UniqueTracks(s) == UniqueFrom(s, 1, {})

\* Line 174: key=lambda x: x['release_date'].
SortKey(track) == track.release_date

\* list.sort(reverse=True) is stable: t goes after every element whose key is
\* not smaller than its own.
RECURSIVE InsertDesc(_, _)
InsertDesc(sorted, t) ==
    IF sorted = <<>> THEN <<t>>
    ELSE IF StrLess(SortKey(Head(sorted)), SortKey(t)) THEN <<t>> \o sorted
    ELSE <<Head(sorted)>> \o InsertDesc(Tail(sorted), t)

RECURSIVE SortDesc(_, _)
SortDesc(s, k) ==
    IF k = 0 THEN <<>> ELSE InsertDesc(SortDesc(s, k - 1), s[k])

\* An off-by-one slice bound (mutation of Truncate).
TruncateOneMore(s, n) == SlicePrefix(s, n + 1)

\* Line 177: unique_tracks[:self.max_tracks]
Truncate(s, n) == SlicePrefix(s, n)

\* Lines 163-177.
FinishReleases ==
    /\ pc = "scan"
    /\ i > Len(artists)
    /\ LET unique_tracks == UniqueTracks(recent_tracks)
       IN tracks' = Truncate(SortDesc(unique_tracks, Len(unique_tracks)), max_tracks)
    /\ pc' = "releases_done"
    /\ UNCHANGED <<sp, user_id, days_lookback, max_tracks, followed_artists,
                   artist_ids, similar_artists, seen_ids, queried, artists,
                   cutoff_date, recent_tracks, scan_log, failed, i, calls, bi,
                   playlist_id, report>>

\* get_recent_releases(artists) is entered: line 114-115.
EnterReleases(list, now) ==
    /\ artists = list
    /\ cutoff_date = CutoffDate(now, days_lookback)
    /\ recent_tracks = <<>>
    /\ scan_log = <<>>
    /\ failed = {}
    /\ i = 1

UserIds == {"u1", "u2"}

InitReleases ==
    /\ pc = "scan"
    /\ sp = "u1"
    /\ user_id = None
    /\ days_lookback \in LookbackValues
    /\ max_tracks \in MaxTracksValues
    /\ \E list \in DistinctSeqs(ArtistPool, Cardinality(ArtistPool)), now \in Nows :
           EnterReleases(list, now)
    /\ followed_artists = <<>>
    /\ artist_ids = <<>>
    /\ similar_artists = <<>>
    /\ seen_ids = {}
    /\ queried = <<>>
    /\ tracks = <<>>
    /\ calls = <<>>
    /\ bi = 0
    /\ playlist_id = None
    /\ report = None

\* The answers of artist_albums for the artist whose turn it is.
AlbumAnswers == IF i \in 1..Len(artists) THEN AlbumResponses(artists[i]) ELSE {}

NextReleases ==
    \/ \E resp \in AlbumAnswers : ScanArtist(resp)
    \/ FinishReleases

SpecReleases == InitReleases /\ [][NextReleases]_vars

-----------------------------------------------------------------------------
(* get_similar_artists *)

\* Line 82: max_similar: int = 20; run passes no other value.
MaxSimilar == 20

\* Line 90: min(10, len(artist_ids)).
SampleCap == 10

\* No cap on the sample (mutation of SampleSize).
SampleSizeAll(ids) == Len(ids)

SampleSize(ids) == Min(SampleCap, Len(ids))

\* Lines 96-99: the loop over related['artists'], from position k on.
RECURSIVE AddRelated(_, _, _, _)
AddRelated(related, k, similar, seen) ==
    IF k > Len(related) THEN [similar |-> similar, seen |-> seen]
    ELSE IF related[k].id \notin seen /\ Len(similar) < MaxSimilar
         THEN AddRelated(related, k + 1, Append(similar, related[k]),
                         seen \cup {related[k].id})
    ELSE AddRelated(related, k + 1, similar, seen)

\* What sp.artist_related_artists may answer: it raises, or lists artists.
\* The lists overlap each other and the followed ids, one repeats an artist,
\* and together they hold more than MaxSimilar artists.
RelatedA == [k \in 1..11 |-> Artist(IF k = 1 THEN 2 ELSE 99 + k)]

RelatedB == [k \in 1..16 |-> Artist(IF k = 16 THEN 101 ELSE 105 + k)]

RelatedC == <<Artist(121), Artist(122), Artist(121), Artist(1)>>

RelatedResponses ==
    {[ok |-> FALSE, artists |-> <<>>]}
    \cup {[ok |-> TRUE, artists |-> r] : r \in {RelatedA, RelatedB, RelatedC}}

\* Lines 86-90.
EnterSimilar(ids) ==
    /\ artist_ids' = ids
    /\ similar_artists' = <<>>
    /\ seen_ids' = Range(ids)
    /\ queried' = <<>>
    /\ i' = 1

\* Lines 92-105: one turn of the loop over artist_ids[:sample_size].
SimilarStep(resp) ==
    /\ pc = "similar"
    /\ i <= SampleSize(artist_ids)
    /\ queried' = Append(queried, artist_ids[i])
    /\ IF resp.ok
       THEN LET res == AddRelated(resp.artists, 1, similar_artists, seen_ids)
            IN /\ similar_artists' = res.similar
               /\ seen_ids' = res.seen
       ELSE UNCHANGED <<similar_artists, seen_ids>>
    /\ i' = i + 1
    /\ UNCHANGED <<pc, sp, user_id, days_lookback, max_tracks, followed_artists,
                   artist_ids, artists, cutoff_date, recent_tracks, scan_log,
                   failed, tracks, calls, bi, playlist_id, report>>

\* Lines 107-108.
SimilarReturn ==
    /\ pc = "similar"
    /\ i > SampleSize(artist_ids)
    /\ pc' = "similar_done"
    /\ UNCHANGED <<sp, user_id, days_lookback, max_tracks, followed_artists,
                   artist_ids, similar_artists, seen_ids, queried, artists,
                   cutoff_date, recent_tracks, scan_log, failed, i, tracks, calls,
                   bi, playlist_id, report>>

InitSimilar ==
    /\ pc = "similar"
    /\ sp = "u1"
    /\ user_id = None
    /\ days_lookback \in LookbackValues
    /\ max_tracks = 50
    /\ followed_artists = <<>>
    /\ \E n \in 0..MaxFollowedIds : artist_ids = [k \in 1..n |-> k]
    /\ similar_artists = <<>>
    /\ seen_ids = Range(artist_ids)
    /\ queried = <<>>
    /\ i = 1
    /\ artists = <<>>
    /\ cutoff_date = CutoffDate([ord |-> Ymd2Ord(2024, 1, 3), tod |-> 0], days_lookback)
    /\ recent_tracks = <<>>
    /\ scan_log = <<>>
    /\ failed = {}
    /\ tracks = <<>>
    /\ calls = <<>>
    /\ bi = 0
    /\ playlist_id = None
    /\ report = None

NextSimilar ==
    \/ \E resp \in RelatedResponses : SimilarStep(resp)
    \/ SimilarReturn

SpecSimilar == InitSimilar /\ [][NextSimilar]_vars

-----------------------------------------------------------------------------
(* create_playlist *)

\* Line 209: range(0, len(track_uris), 100) and track_uris[i:i+100].
BatchSize == 100

\* Line 206.
TrackUris(list) == [k \in 1..Len(list) |-> list[k].uri]

\* A slice one element too long (mutation of Batch).
BatchOneMore(uris, offset) ==
    SubSeq(uris, offset + 1, Min(offset + BatchSize + 1, Len(uris)))

\* Line 210: track_uris[i:i+100].
Batch(uris, offset) == SubSeq(uris, offset + 1, Min(offset + BatchSize, Len(uris)))

CreateCall(user, ok) ==
    [op |-> "create", user |-> user, public |-> FALSE, batch |-> <<>>, ok |-> ok]

AddCall(batch, ok) ==
    [op |-> "add", user |-> None, public |-> FALSE, batch |-> batch, ok |-> ok]

\* Lines 181-203: the guard, then the user_playlist_create call; ok = FALSE
\* stands for the call raising (lines 218-220).
CreatePlaylist(ok) ==
    /\ pc = "create"
    /\ IF tracks = <<>>
       THEN /\ playlist_id' = None
            /\ pc' = "create_done"
            /\ UNCHANGED <<calls, bi>>
       ELSE /\ calls' = Append(calls, CreateCall(user_id, ok))
            /\ bi' = 0
            /\ IF ok
               THEN /\ pc' = "add"
                    /\ UNCHANGED playlist_id
               ELSE /\ pc' = "create_done"
                    /\ playlist_id' = None
    /\ UNCHANGED <<sp, user_id, days_lookback, max_tracks, followed_artists,
                   artist_ids, similar_artists, seen_ids, queried, artists,
                   cutoff_date, recent_tracks, scan_log, failed, i, tracks, report>>

\* Lines 209-211: one turn of the batch loop, one playlist_add_items call.
AddItems(ok) ==
    /\ pc = "add"
    /\ bi < Len(tracks)
    /\ calls' = Append(calls, AddCall(Batch(TrackUris(tracks), bi), ok))
    /\ IF ok
       THEN /\ bi' = bi + BatchSize
            /\ UNCHANGED <<pc, playlist_id>>
       ELSE /\ pc' = "create_done"
            /\ playlist_id' = None
            /\ UNCHANGED bi
    /\ UNCHANGED <<sp, user_id, days_lookback, max_tracks, followed_artists,
                   artist_ids, similar_artists, seen_ids, queried, artists,
                   cutoff_date, recent_tracks, scan_log, failed, i, tracks, report>>

\* Lines 213-216.
ReturnPlaylistId ==
    /\ pc = "add"
    /\ bi >= Len(tracks)
    /\ playlist_id' = "playlist"
    /\ pc' = "create_done"
    /\ UNCHANGED <<sp, user_id, days_lookback, max_tracks, followed_artists,
                   artist_ids, similar_artists, seen_ids, queried, artists,
                   cutoff_date, recent_tracks, scan_log, failed, i, tracks, calls,
                   bi, report>>

\* A Track Record as create_playlist reads it: only 'uri' is used.
PlaylistTrack(k) ==
    [id |-> k, name |-> NameSo, artist |-> NameAb, album |-> <<65>>,
     release_date |-> DayString(2024, 1, 2), uri |-> k]

InitPlaylist ==
    /\ pc = "create"
    /\ sp = "u1"
    /\ user_id = None
    /\ days_lookback \in LookbackValues
    /\ max_tracks = MaxPlaylistTracks
    /\ followed_artists = <<>>
    /\ artist_ids = <<>>
    /\ similar_artists = <<>>
    /\ seen_ids = {}
    /\ queried = <<>>
    /\ i = 1
    /\ artists = <<>>
    /\ cutoff_date = CutoffDate([ord |-> Ymd2Ord(2024, 1, 3), tod |-> 0], days_lookback)
    /\ recent_tracks = <<>>
    /\ scan_log = <<>>
    /\ failed = {}
    /\ \E n \in 0..MaxPlaylistTracks : tracks = [k \in 1..n |-> PlaylistTrack(k)]
    /\ calls = <<>>
    /\ bi = 0
    /\ playlist_id = None
    /\ report = None

NextPlaylist ==
    \/ \E ok \in BOOLEAN : CreatePlaylist(ok)
    \/ \E ok \in BOOLEAN : AddItems(ok)
    \/ ReturnPlaylistId

SpecPlaylist == InitPlaylist /\ [][NextPlaylist]_vars

-----------------------------------------------------------------------------
(* __init__, setup_spotify_client, get_followed_artists and run *)

\* Line 58: self.user_id = user_info['id'].
UserIdAfterSetup(resolved) == resolved

\* Line 22, which runs after setup_spotify_client() returned (line 21).
UserIdAfterInit(after_setup) == None

\* The environment and the remote handshake at construction: whether the three
\* credentials are set, the identity current_user() resolves (None: the
\* handshake is rejected), DAYS_LOOKBACK and MAX_TRACKS_PER_PLAYLIST.
Environments ==
    [creds : BOOLEAN, user : UserIds \cup {None},
     days : LookbackValues, max : MaxTracksValues]

\* Lines 19-63: MusicDiscoveryTool(); sys.exit(1) when setup fails.
Construct(env) ==
    /\ pc = "new"
    /\ IF env.creds /\ env.user # None
       THEN /\ sp' = env.user
            /\ user_id' = UserIdAfterInit(UserIdAfterSetup(env.user))
            /\ days_lookback' = env.days
            /\ max_tracks' = env.max
            /\ pc' = "run"
       ELSE /\ pc' = "exit"
            /\ UNCHANGED <<sp, user_id, days_lookback, max_tracks>>
    /\ UNCHANGED <<followed_artists, artist_ids, similar_artists, seen_ids,
                   queried, artists, cutoff_date, recent_tracks, scan_log, failed,
                   i, tracks, calls, bi, playlist_id, report>>

RECURSIVE Flatten(_)
Flatten(pages) == IF pages = <<>> THEN <<>> ELSE Head(pages) \o Flatten(Tail(pages))

\* What the paginated current_user_followed_artists / next calls may answer
\* in a run: a request raises, or the pages listed.
FollowedResponses ==
    {[ok |-> FALSE, pages |-> <<>>]}
    \cup {[ok |-> TRUE, pages |-> p] :
            p \in {<<<<>>>>, <<<<Artist(1)>>>>, <<<<Artist(1)>>, <<Artist(3)>>>>}}

\* Lines 245-254: get_followed_artists (lines 65-80), the empty check, and the
\* call of get_similar_artists(followed_ids); an exception ends the run at
\* lines 277-278.
GetFollowed(resp) ==
    /\ pc = "run"
    /\ IF ~resp.ok
       THEN /\ report' = "error"
            /\ pc' = "done"
            /\ UNCHANGED <<followed_artists, artist_ids, similar_artists, seen_ids,
                           queried, i>>
       ELSE /\ followed_artists' = Flatten(resp.pages)
            /\ IF Flatten(resp.pages) = <<>>
               THEN /\ report' = "no_followed"
                    /\ pc' = "done"
                    /\ UNCHANGED <<artist_ids, similar_artists, seen_ids, queried, i>>
               ELSE /\ EnterSimilar([k \in 1..Len(Flatten(resp.pages)) |->
                                        Flatten(resp.pages)[k].id])
                    /\ pc' = "similar"
                    /\ UNCHANGED report
    /\ UNCHANGED <<sp, user_id, days_lookback, max_tracks, artists, cutoff_date,
                   recent_tracks, scan_log, failed, tracks, calls, bi, playlist_id>>

\* Lines 257-260 and 114-115: all_artists = followed_artists + similar_artists
\* is handed to get_recent_releases, which reads the clock.
StartReleases(now) ==
    /\ pc = "similar_done"
    /\ artists' = followed_artists \o similar_artists
    /\ cutoff_date' = CutoffDate(now, days_lookback)
    /\ recent_tracks' = <<>>
    /\ scan_log' = <<>>
    /\ failed' = {}
    /\ i' = 1
    /\ pc' = "scan"
    /\ UNCHANGED <<sp, user_id, days_lookback, max_tracks, followed_artists,
                   artist_ids, similar_artists, seen_ids, queried, tracks, calls, bi,
                   playlist_id, report>>

\* The branch taken whatever the list holds (mutation of HasTracks).
HasTracksAlways(list) == TRUE

\* Line 266: if recent_tracks:
HasTracks(list) == list # <<>>

\* Lines 263-273: the summary, then create_playlist or the closing message.
AfterReleases ==
    /\ pc = "releases_done"
    /\ IF HasTracks(tracks)
       THEN /\ pc' = "create"
            /\ UNCHANGED report
       ELSE /\ pc' = "done"
            /\ report' = "no_releases"
    /\ UNCHANGED <<sp, user_id, days_lookback, max_tracks, followed_artists,
                   artist_ids, similar_artists, seen_ids, queried, artists,
                   cutoff_date, recent_tracks, scan_log, failed, i, tracks, calls,
                   bi, playlist_id>>

\* Lines 268-271.
EndRun ==
    /\ pc = "create_done"
    /\ report' = IF playlist_id # None THEN "success" ELSE "failed"
    /\ pc' = "done"
    /\ UNCHANGED <<sp, user_id, days_lookback, max_tracks, followed_artists,
                   artist_ids, similar_artists, seen_ids, queried, artists,
                   cutoff_date, recent_tracks, scan_log, failed, i, tracks, calls,
                   bi, playlist_id>>

\* The answers a whole run draws from: one related list, pages of one album.
RunRelatedResponses ==
    {[ok |-> FALSE, artists |-> <<>>],
     [ok |-> TRUE, artists |-> <<Artist(2), Artist(1), Artist(2)>>]}

RunAlbumAnswers == {r \in AlbumAnswers : Len(r.items) <= 1}

Init ==
    /\ pc = "new"
    /\ sp = None
    /\ user_id = None
    /\ days_lookback = 0
    /\ max_tracks = 0
    /\ followed_artists = <<>>
    /\ artist_ids = <<>>
    /\ similar_artists = <<>>
    /\ seen_ids = {}
    /\ queried = <<>>
    /\ artists = <<>>
    /\ cutoff_date = [ord |-> 0, tod |-> 0]
    /\ recent_tracks = <<>>
    /\ scan_log = <<>>
    /\ failed = {}
    /\ i = 1
    /\ tracks = <<>>
    /\ calls = <<>>
    /\ bi = 0
    /\ playlist_id = None
    /\ report = None

Next ==
    \/ \E env \in Environments : Construct(env)
    \/ \E resp \in FollowedResponses : GetFollowed(resp)
    \/ \E resp \in RunRelatedResponses : SimilarStep(resp)
    \/ SimilarReturn
    \/ \E now \in Nows : StartReleases(now)
    \/ \E resp \in RunAlbumAnswers : ScanArtist(resp)
    \/ FinishReleases
    \/ AfterReleases
    \/ \E ok \in BOOLEAN : CreatePlaylist(ok)
    \/ \E ok \in BOOLEAN : AddItems(ok)
    \/ ReturnPlaylistId
    \/ EndRun

Spec == Init /\ [][Next]_vars

-----------------------------------------------------------------------------
(* Properties of get_recent_releases, checked under SpecReleases. *)

\* get_recent_releases has returned: tracks is its result.
Returned == pc = "releases_done"

\* The date value the program compares for a release-date string it accepts.
NormalizedOrd(s) == ParseReleaseDate(s).ord

\* The album at position a of artist k's answer is within the release window.
InWindow(album) ==
    LET rd == ParseReleaseDate(album.release_date)
    IN rd.kind = "date" /\ DtGE([ord |-> rd.ord, tod |-> 0], cutoff_date)

\* The Track Record of one track of an album of artists[k].
RecordOf(k, album, item) ==
    [id |-> item.id, name |-> item.name, artist |-> artists[k].name,
     album |-> album.name, release_date |-> album.release_date, uri |-> item.uri]

AllTracksScanned(k, album) ==
    \A n \in 1..Len(album.tracks.items) :
        RecordOf(k, album, album.tracks.items[n]) \in Range(recent_tracks)

SomeTrackScanned(k, album) ==
    \E t \in Range(recent_tracks) : t.album = album.name /\ t.artist = artists[k].name

LowerKey(t) == <<Lower(t.name), Lower(t.artist)>>

\* C2: the list get_recent_releases returns holds no two entries with the same
\* (lowercased track name, lowercased artist name) pair.
C2_NoDuplicateKeys ==
    Returned =>
        \A a, b \in 1..Len(tracks) : LowerKey(tracks[a]) = LowerKey(tracks[b]) => a = b

\* C2 witness: the scan collected two tracks that differ in case only, and the
\* returned list still has several entries.
C2_Witness ==
    /\ Returned
    /\ Len(tracks) >= 2
    /\ \E a, b \in 1..Len(recent_tracks) :
          /\ a # b
          /\ LowerKey(recent_tracks[a]) = LowerKey(recent_tracks[b])
          /\ recent_tracks[a].name # recent_tracks[b].name

\* The number of distinct keys among the scanned tracks.
UniqueCount == Cardinality({LowerKey(t) : t \in Range(recent_tracks)})

\* C3 as stated: the returned list is never longer than max_tracks, whatever
\* the configured maximum.
C3_AtMostMaxTracks == Returned => Len(tracks) <= max_tracks

\* C3 amended: the returned list is no longer than max_tracks when max_tracks is
\* not negative; for a negative max_tracks the slice drops that many unique
\* tracks from the end, leaving max(0, unique + max_tracks) entries.
C3_AtMostMaxTracksNonNegative ==
    Returned =>
        /\ max_tracks >= 0 => Len(tracks) <= max_tracks
        /\ max_tracks >= 0 => Len(tracks) = Min(max_tracks, UniqueCount)
        /\ max_tracks < 0 => Len(tracks) = Max(0, UniqueCount + max_tracks)

\* C3 witness: the maximum cut the list short.
C3_Witness ==
    /\ Returned
    /\ max_tracks >= 1
    /\ UniqueCount > max_tracks
    /\ Len(tracks) = max_tracks

\* C4: the returned list is in descending order of normalized release date.
C4_SortedByNormalizedDate ==
    Returned =>
        \A a, b \in 1..Len(tracks) :
            a < b => NormalizedOrd(tracks[a].release_date)
                        >= NormalizedOrd(tracks[b].release_date)

\* C5: an artist whose lookup raised does not end the scan: every artist up to
\* the loop index has been visited, all of them once the function returns, and
\* when some artist failed every album in the window of every artist that did
\* not fail has all its tracks in the scanned list.
C5_FailureIsolation ==
    /\ pc = "scan" => Len(scan_log) = i - 1
    /\ Returned => Len(scan_log) = Len(artists)
    /\ failed # {} =>
          \A k \in (1..Len(scan_log)) \ failed :
              \A a \in 1..Len(scan_log[k].items) :
                  InWindow(scan_log[k].items[a]) => AllTracksScanned(k, scan_log[k].items[a])

\* C5 witness: of three artists the second failed, and the returned list holds
\* tracks of the first and of the third.
C5_Witness ==
    /\ Returned
    /\ Len(artists) = 3
    /\ failed = {2}
    /\ \E t \in Range(tracks) : t.artist = artists[1].name
    /\ \E t \in Range(tracks) : t.artist = artists[3].name

\* C8: every returned track carries a release date on or after the cutoff, every
\* scanned track belongs to an album in the window of the artist it names, and
\* for an artist whose scan did not fail every album in the window has all its
\* tracks in the scanned list, with the artist's name, the album's name and the
\* album's release-date string.
C8_ReleaseWindow ==
    /\ \A t \in Range(tracks) :
          /\ ParseReleaseDate(t.release_date).kind = "date"
          /\ DtGE([ord |-> NormalizedOrd(t.release_date), tod |-> 0], cutoff_date)
    /\ \A t \in Range(recent_tracks) :
          \E k \in 1..Len(scan_log) : \E a \in 1..Len(scan_log[k].items) :
              LET album == scan_log[k].items[a]
              IN /\ InWindow(album)
                 /\ \E n \in 1..Len(album.tracks.items) :
                        t = RecordOf(k, album, album.tracks.items[n])
    /\ \A k \in (1..Len(scan_log)) \ failed :
          \A a \in 1..Len(scan_log[k].items) :
              InWindow(scan_log[k].items[a]) => AllTracksScanned(k, scan_log[k].items[a])

\* C8 witness: the returned list holds a track released on the very day of the
\* cutoff, and an album of an artist that did not fail was left out as too old.
C8_Witness ==
    /\ Returned
    /\ \E t \in Range(tracks) : NormalizedOrd(t.release_date) = cutoff_date.ord
    /\ \E k \in (1..Len(scan_log)) \ failed : \E a \in 1..Len(scan_log[k].items) :
          LET album == scan_log[k].items[a]
          IN /\ ParseReleaseDate(album.release_date).kind = "date"
             /\ ~InWindow(album)
             /\ ~SomeTrackScanned(k, album)

\* The date the claim assigns to a string by its length alone: positions 1-4
\* the year, 6-7 the month (01 when absent), 9-10 the day (01 when absent).
AllDigits(s, from, to) == \A k \in from..to : IsDigit(s[k])

IsYearString(s) == Len(s) = 4 /\ AllDigits(s, 1, 4)

IsYearMonthString(s) ==
    Len(s) = 7 /\ AllDigits(s, 1, 4) /\ s[5] = Dash /\ AllDigits(s, 6, 7)

IsFullDateString(s) ==
    Len(s) = 10 /\ AllDigits(s, 1, 4) /\ s[5] = Dash /\ AllDigits(s, 6, 7)
    /\ s[8] = Dash /\ AllDigits(s, 9, 10)

Num(s, from, to) ==
    IF to - from = 1 THEN 10 * DigitVal(s[from]) + DigitVal(s[to])
    ELSE 1000 * DigitVal(s[from]) + 100 * DigitVal(s[from + 1])
         + 10 * DigitVal(s[from + 2]) + DigitVal(s[to])

DateByLength(s) ==
    [ord |-> Ymd2Ord(Num(s, 1, 4),
                     IF Len(s) >= 7 THEN Num(s, 6, 7) ELSE 1,
                     IF Len(s) = 10 THEN Num(s, 9, 10) ELSE 1),
     tod |-> 0]

\* C9: in the scan of an artist that did not fail, an album is taken exactly
\* when its date - January 1 of a 4-character year, the first of a 7-character
\* year-month, a 10-character date itself - is on or after the cutoff, and an
\* album whose string has any other length is dropped; such an album never
\* makes the artist's scan fail.
C9_NormalizationByLength ==
    \A k \in 1..Len(scan_log) : \A a \in 1..Len(scan_log[k].items) :
        LET album == scan_log[k].items[a]
            s == album.release_date
        IN /\ (k \notin failed /\ (IsYearString(s) \/ IsYearMonthString(s) \/ IsFullDateString(s)))
                 => (SomeTrackScanned(k, album) <=> DtGE(DateByLength(s), cutoff_date))
           /\ Len(s) \notin {4, 7, 10} => ~SomeTrackScanned(k, album)
           /\ (Len(scan_log[k].items) = 1 /\ Len(s) \notin {4, 7, 10}) => k \notin failed

-----------------------------------------------------------------------------
(* Properties of get_similar_artists, checked under SpecSimilar. *)

SimilarIds == [k \in 1..Len(similar_artists) |-> similar_artists[k].id]

\* C10: get_similar_artists queries only the first 10 followed ids, in order;
\* the artists it has accumulated have pairwise distinct ids, none of them a
\* followed id, and are at most max_similar (20); so in followed + similar no
\* related artist repeats an id that stands earlier in the list.
C10_SimilarArtists ==
    /\ Len(queried) <= 10
    /\ \A k \in 1..Len(queried) : queried[k] = artist_ids[k]
    /\ \A a, b \in 1..Len(similar_artists) : SimilarIds[a] = SimilarIds[b] => a = b
    /\ \A a \in 1..Len(similar_artists) : SimilarIds[a] \notin Range(artist_ids)
    /\ Len(similar_artists) <= 20
    /\ LET all == artist_ids \o SimilarIds
       IN \A a, b \in 1..Len(all) : (a < b /\ b > Len(artist_ids)) => all[a] # all[b]

\* C10 witness: eleven ids are followed, ten were queried, and the function
\* returned with the maximum of 20 artists.
C10_Witness ==
    /\ pc = "similar_done"
    /\ Len(artist_ids) = 11
    /\ Len(queried) = 10
    /\ Len(similar_artists) = 20

-----------------------------------------------------------------------------
(* Properties of create_playlist, checked under SpecPlaylist. *)

RECURSIVE BatchesOf(_)
BatchesOf(list) ==
    IF list = <<>> THEN <<>>
    ELSE IF Head(list).op = "add" THEN Head(list).batch \o BatchesOf(Tail(list))
    ELSE BatchesOf(Tail(list))

\* ceil(n / 100)
CeilHundredth(n) == (n + 99) \div 100

IsPrefix(a, b) == Len(a) <= Len(b) /\ a = SubSeq(b, 1, Len(a))

\* One creation call, then ceil(n/100) append calls of at most 100 references
\* each, which together carry the references of the list in order.
FullCallSequence ==
    /\ Len(calls) = 1 + CeilHundredth(Len(tracks))
    /\ calls[1].op = "create"
    /\ \A k \in 2..Len(calls) : calls[k].op = "add" /\ Len(calls[k].batch) <= 100
    /\ BatchesOf(calls) = TrackUris(tracks)

\* C7 as stated: create_playlist, given a non-empty list, has issued the full
\* call sequence when it ends.
C7_ExactBatches == (pc = "create_done" /\ tracks # <<>>) => FullCallSequence

\* C7 amended: the calls issued are at any time a creation call followed by
\* append calls of 1 to 100 references that carry a prefix of the list's
\* references in order, and only the last call issued can have raised; when
\* create_playlist ends and no call raised, the full sequence was issued and the
\* playlist id is returned; when a call raised, None is returned.
C7_ExactBatchesUnlessARaise ==
    /\ calls # <<>> =>
          /\ calls[1].op = "create"
          /\ \A k \in 2..Len(calls) :
                calls[k].op = "add" /\ Len(calls[k].batch) \in 1..100
          /\ \A k \in 1..(Len(calls) - 1) : calls[k].ok
          /\ Len(calls) <= 1 + CeilHundredth(Len(tracks))
          /\ IsPrefix(BatchesOf(calls), TrackUris(tracks))
    /\ (pc = "create_done" /\ tracks # <<>>) =>
          IF \A k \in 1..Len(calls) : calls[k].ok
          THEN FullCallSequence /\ playlist_id # None
          ELSE playlist_id = None

\* C7 witness: 150 tracks went out as a creation call and two append calls, of
\* 100 and of 50 references.
C7_Witness ==
    /\ pc = "create_done"
    /\ Len(tracks) = 150
    /\ playlist_id # None
    /\ Len(calls) = 3
    /\ Len(calls[2].batch) = 100
    /\ Len(calls[3].batch) = 50

-----------------------------------------------------------------------------
(* Properties of a whole run, checked under Spec. *)

\* C1: once the tool is constructed, user_id is the identity resolved during
\* authentication, and that identity is the user of every creation call.
C1_UserIdIsAuthenticatedUser ==
    /\ pc \notin {"new", "exit"} => user_id = sp
    /\ \A k \in 1..Len(calls) : calls[k].op = "create" => calls[k].user = sp

\* The run ended without an exception, with nobody followed or with an empty
\* final track list.
EndedWithNothing ==
    /\ pc = "done"
    /\ report # "error"
    /\ followed_artists = <<>> \/ tracks = <<>>

\* C6 as stated: playlist calls are issued only for a non-empty final list, and
\* a run that ends with nobody followed or with no track left has issued no
\* call and reported no new releases.
C6_NoPlaylistWithoutTracks ==
    /\ calls # <<>> => tracks # <<>>
    /\ EndedWithNothing => (calls = <<>> /\ report = "no_releases")

\* C6 amended: as stated, except that the run with nobody followed ends with
\* the message that no followed artists were found.
C6_NoPlaylistWithoutTracksReported ==
    /\ calls # <<>> => (tracks # <<>> /\ pc \in {"add", "create_done", "done"})
    /\ EndedWithNothing =>
          /\ calls = <<>>
          /\ playlist_id = None
          /\ report = IF followed_artists = <<>> THEN "no_followed" ELSE "no_releases"

\* C6 witness: artists were scanned and had albums, no track was left, and the
\* run ended reporting no new releases.
C6_Witness ==
    /\ pc = "done"
    /\ report = "no_releases"
    /\ calls = <<>>
    /\ \E k \in 1..Len(scan_log) : scan_log[k].items # <<>>

====
